---- MODULE Spec2Model ----
(***************************************************************************)
(* Run / RunImage orchestration of Nexus-Workflow.                         *)
(*                                                                         *)
(*   services/api/app/api/runs.py        the Run Lifecycle Manager         *)
(*   services/api/app/schemas.py         request payloads and defaults     *)
(*   services/api/app/models.py          tables and column defaults        *)
(*   services/image-generator/worker.py  the Worker Loop                   *)
(*   services/image-generator/generator.py  generate_images_for_run        *)
(*   services/api/app/api/links.py       the link submission dispatcher    *)
(*   services/api/app/services/webhooks.py  the approval dispatcher        *)
(*                                                                         *)
(* The store is the committed content of the three tables.  A request      *)
(* handler of runs.py is one transaction and is one action.  The worker    *)
(* loop is split at each of its accesses to the store: the SELECT of the   *)
(* poll, the commit of the claim, the reload of the expired row, the call  *)
(* of the generator and the commit of the final status.                    *)
(***************************************************************************)
EXTENDS Integers, Sequences, FiniteSets, TLC

\* ------------------------------------------------------------------ bounds
MaxRuns      == 2
MaxImages    == 2
MaxApprovals == 2
MaxCount     == 2
MaxLinks     == 2
MaxAttempts  == 2
MaxBuilds    == 2

\* ------------------------------------------------------- enums (models.py)
QUEUED     == "queued"
GENERATING == "generating"
READY      == "ready"
APPROVED   == "approved"
ERROR      == "error"
RunStatus  == {QUEUED, GENERATING, READY, APPROVED, ERROR}

GENERATED  == "generated"
REJECTED   == "rejected"
RunImageStatus == {GENERATED, APPROVED, REJECTED}

PENDING    == "pending"
SENT       == "sent"
FAILED     == "failed"
WebhookStatus == {PENDING, SENT, FAILED}

\* A request field the caller left out.
Unset == "unset"

\* A nullable column that holds NULL.
None == "none"

\* str(exc) of the exception a POST can end with.
ErrorTexts == {"timed out"}

\* ------------------------------------------------------------ input sets
Ordinals  == {1, 2}
Approvers == {"alice"}
\* The image lists a request can carry: RunImageCreate.ordinal is whatever
\* the caller sends.
ImageLists == {<<>>} \cup {<<o>> : o \in Ordinals}
                     \cup {<<o1, o2>> : o1 \in Ordinals, o2 \in Ordinals}

\* The worker instances of the two deployments that are checked.
AllWorkers   == {1, 2}
SingleWorker == {1}
\* The threads that call the tagger at the same time.
Callers      == {1, 2}
TwoWorkers   == {1, 2}

VARIABLES
    runs,          \* table runs: sequence of rows, id = index = creation order
    images,        \* table run_images: sequence of rows, id = index
    approvals,     \* table run_image_approvals: sequence of rows, id = index
    tasks,         \* background tasks scheduled by request handlers
    pc,            \* worker -> position in process_queued_runs
    wRun,          \* worker -> id of the run object held by its session
    wLoaded,       \* worker -> status attribute of that object as last loaded
    wResult,       \* worker -> status the worker is about to write
    approveCalls,  \* image id -> number of approve requests that succeeded
    wEngine,       \* worker -> what the engine gives for each requested image
                   \* (its length is num_images)
    wPending,      \* worker -> RunImage rows flushed in its session, not committed
    gen,           \* a direct call of generate_images_for_run (own session)
    links,         \* table link_submissions: sequence of rows, id = index
    linkTask,      \* the running _post_link_submission_webhook
    apprTask,      \* the running enqueue_run_image_approval_webhook
    resp,          \* the images of the last GetRun response, as ordinals
    listed,        \* the last ListRuns response
    session,       \* wd14_tagger._session: None, or the n-th session built
    tags,          \* wd14_tagger._tags: None, or the parsed tag list
    lock,          \* wd14_tagger._lock: the caller that holds it, or 0
    callPc,        \* caller -> position in _ensure_loaded
    callRead,      \* caller -> the _session it read for its return value
    callRet,       \* caller -> what its last call gave
    constructed,   \* number of InferenceSession objects built so far
    returned       \* some call of _ensure_loaded has returned a pair

vars == <<runs, images, approvals, tasks, pc, wRun, wLoaded, wResult,
          approveCalls, wEngine, wPending, gen, links, linkTask,
          apprTask, resp, listed, session, tags, lock, callPc, callRead,
          callRet, constructed, returned>>

taggerVars == <<session, tags, lock, callPc, callRead, callRet, constructed,
                returned>>
storeVars  == <<runs, images, approvals, tasks, approveCalls>>
workerVars == <<pc, wRun, wLoaded, wResult, wEngine, wPending>>
\* What the runs handlers and the worker never touch.
auxVars    == <<gen, links, linkTask, apprTask, resp, listed, taggerVars>>

RunIds   == DOMAIN runs
ImageIds == DOMAIN images

\* ------------------------------------------------------------------ rows
\* runs.py:102,125,142,173  datetime.utcnow() assigned to updated_at: a
\* value the column did not hold.  The column is kept as the parity of the
\* number of times it was written, so a step leaves it equal exactly when
\* it does not write it (two writes in one second, which the DATETIME
\* column cannot tell apart, are taken as distinct).
utcnow(at) == ~at

\* models.py Run: the status column, created_at and updated_at.  The id of a
\* run is its position in runs (the order of the INSERTs); created_at is the
\* second in which the row was made, as the DATETIME column keeps it.
Run(st, at) == [status |-> st, created_at |-> at, updated_at |-> FALSE]

\* The location the creator of an image gives it (runs.py:57 and 120 from
\* the request, generator.py:446 from the store): one per run and ordinal.
AssetUri(r, o) == <<r, o>>

\* models.py RunImage: status defaults to GENERATED.
RunImage(r, o) ==
    [run_id |-> r, ordinal |-> o, status |-> GENERATED,
     asset_uri |-> AssetUri(r, o)]

\* models.py RunImageApproval: webhook_status PENDING, webhook_attempts 0,
\* webhook_last_error NULL.
RunImageApproval(i, by) ==
    [run_image_id |-> i, approved_by |-> by,
     webhook_status |-> PENDING, webhook_attempts |-> 0,
     webhook_last_error |-> None]

\* A link submission as create_link_submission leaves it: the webhook triple
\* of the design, nothing delivered yet.
LinkSubmission ==
    [webhook_status |-> PENDING, webhook_attempts |-> 0,
     webhook_last_error |-> None]

RECURSIVE NewImages(_, _)
NewImages(r, ords) ==
    IF ords = <<>> THEN <<>>
    ELSE <<RunImage(r, Head(ords))>> \o NewImages(r, Tail(ords))

\* No direct call of generate_images_for_run is running.
IdleGen == [pc |-> "idle", run |-> 0, num |-> 0, i |-> 0, pending |-> <<>>]

\* No dispatcher has run yet.  A dispatcher keeps the id it was called with,
\* the row as its session loaded it and how its last call ended.
NoRow    == [webhook_status |-> None, webhook_attempts |-> 0,
             webhook_last_error |-> None]
IdleTask == [pc |-> "idle", id |-> 0, loaded |-> NoRow, last |-> "none"]

\* The webhook triple of a row.
Triple(row) ==
    [webhook_status |-> row.webhook_status,
     webhook_attempts |-> row.webhook_attempts,
     webhook_last_error |-> row.webhook_last_error]

\* schemas.py RunCreate: status: RunStatus = RunStatus.READY.
RunCreateStatus(given) == IF given = Unset THEN READY ELSE given

\* wd14_tagger._ensure_loaded: what a call gave: nothing yet, a raised
\* WD14TaggerError, or the pair.
NoResult == [kind |-> "none", session |-> 0, tags |-> None]
Raised   == [kind |-> "raise", session |-> 0, tags |-> None]
Pair(s, g) == [kind |-> "return", session |-> s, tags |-> g]

Init ==
    /\ runs = <<>>
    /\ images = <<>>
    /\ approvals = <<>>
    /\ tasks = <<>>
    /\ pc = [w \in AllWorkers |-> "poll"]
    /\ wRun = [w \in AllWorkers |-> 0]
    /\ wLoaded = [w \in AllWorkers |-> Unset]
    /\ wResult = [w \in AllWorkers |-> Unset]
    /\ approveCalls = [i \in 1..MaxImages |-> 0]
    /\ wEngine = [w \in AllWorkers |-> <<>>]
    /\ wPending = [w \in AllWorkers |-> <<>>]
    /\ gen = IdleGen
    /\ links = <<>>
    /\ linkTask = IdleTask
    /\ apprTask = IdleTask
    /\ resp = <<>>
    /\ listed = [code |-> 0, runs |-> {}, queued_count |-> 0]
    /\ session = 0
    /\ tags = None
    /\ lock = 0
    /\ callPc = [t \in Callers |-> "idle"]
    /\ callRead = [t \in Callers |-> 0]
    /\ callRet = [t \in Callers |-> NoResult]
    /\ constructed = 0
    /\ returned = FALSE

\* ------------------------------------------------ Run Lifecycle Manager
\* models.py:44  created_at defaults to datetime.utcnow at the INSERT: the
\* second of the run created last, or a later one.
Now ==
    IF runs = <<>> THEN {1}
    ELSE {runs[Len(runs)].created_at, runs[Len(runs)].created_at + 1}

\* runs.py create_run.
create_run(given, ords) ==
    /\ Len(runs) < MaxRuns
    /\ Len(images) + Len(ords) <= MaxImages
    /\ \E at \in Now : runs' = Append(runs, Run(RunCreateStatus(given), at))
    /\ images' = images \o NewImages(Len(runs) + 1, ords)
    /\ UNCHANGED <<approvals, tasks, approveCalls, workerVars, auxVars>>

\* The prompts of the requests: the field left out, the empty string, a text.
Prompts == {Unset, "", "a red fox"}

\* schemas.py:28-31  RunBase.prompt: str, a required field with no constraint
\* on its length: every string validates.
RunBaseAccepts(p) == p /= Unset

\* POST /runs: FastAPI validates the body as RunCreate and answers 422
\* without calling the handler when it does not validate.
post_runs(p, given, ords) ==
    IF RunBaseAccepts(p)
    THEN create_run(given, ords)
    ELSE /\ Len(runs) < MaxRuns
         /\ UNCHANGED vars

\* runs.py _get_run: the row with this id, else 404.
HasRun(r) == r \in RunIds

\* runs.py update_run_status.
update_run_status(r, st) ==
    /\ IF HasRun(r)
       THEN runs' = [runs EXCEPT ![r].status = st, ![r].updated_at = utcnow(@)]
       ELSE UNCHANGED runs
    /\ UNCHANGED <<images, approvals, tasks, approveCalls, workerVars, auxVars>>

\* runs.py add_run_images.
add_run_images(r, ords) ==
    /\ Len(images) + Len(ords) <= MaxImages
    /\ IF HasRun(r)
       THEN /\ images' = images \o NewImages(r, ords)
            /\ runs' = [runs EXCEPT ![r].updated_at = utcnow(@)]
       ELSE UNCHANGED <<images, runs>>
    /\ UNCHANGED <<approvals, tasks, approveCalls, workerVars, auxVars>>

\* Mutant: the image is looked up by its id alone.
HasRunImageAnyRun(r, i) == i \in ImageIds

\* runs.py _get_run_image: the row with this id and this run_id, else 404.
HasRunImage(r, i) == i \in ImageIds /\ images[i].run_id = r

\* Mutant: the run is promoted only from READY.
approve_run_image_from_ready(r, i, by) ==
    /\ Len(approvals) < MaxApprovals
    /\ IF HasRunImage(r, i)
       THEN /\ images' = [images EXCEPT ![i].status = APPROVED]
            /\ runs' = IF runs[r].status = READY
                       THEN [runs EXCEPT ![r].status = APPROVED,
                                         ![r].updated_at = utcnow(@)]
                       ELSE [runs EXCEPT ![r].updated_at = utcnow(@)]
            /\ approvals' = Append(approvals, RunImageApproval(i, by))
            /\ approveCalls' = [approveCalls EXCEPT ![i] = @ + 1]
       ELSE UNCHANGED <<images, runs, approvals, approveCalls>>
    /\ UNCHANGED <<tasks, workerVars, auxVars>>

\* Mutant: approving an image that is already APPROVED records no new row.
approve_run_image_once(r, i, by) ==
    /\ Len(approvals) < MaxApprovals
    /\ IF HasRunImage(r, i)
       THEN /\ images' = [images EXCEPT ![i].status = APPROVED]
            /\ runs' = [runs EXCEPT ![r].status = APPROVED,
                                    ![r].updated_at = utcnow(@)]
            /\ approvals' = IF images[i].status = APPROVED THEN approvals
                            ELSE Append(approvals, RunImageApproval(i, by))
            /\ approveCalls' = [approveCalls EXCEPT ![i] = @ + 1]
       ELSE UNCHANGED <<images, runs, approvals, approveCalls>>
    /\ UNCHANGED <<tasks, workerVars, auxVars>>

\* Mutant: the approval is applied to every image of the run.
approve_run_image_all(r, i, by) ==
    /\ Len(approvals) < MaxApprovals
    /\ IF HasRunImage(r, i)
       THEN /\ images' = [j \in ImageIds |->
                            IF images[j].run_id = r
                            THEN [images[j] EXCEPT !.status = APPROVED]
                            ELSE images[j]]
            /\ runs' = [runs EXCEPT ![r].status = APPROVED,
                                    ![r].updated_at = utcnow(@)]
            /\ approvals' = Append(approvals, RunImageApproval(i, by))
            /\ approveCalls' = [approveCalls EXCEPT ![i] = @ + 1]
       ELSE UNCHANGED <<images, runs, approvals, approveCalls>>
    /\ UNCHANGED <<tasks, workerVars, auxVars>>

\* Mutant: the approval is applied to the image and the run, and not recorded.
approve_run_image_unrecorded(r, i, by) ==
    /\ Len(approvals) < MaxApprovals
    /\ IF HasRunImage(r, i)
       THEN /\ images' = [images EXCEPT ![i].status = APPROVED]
            /\ runs' = [runs EXCEPT ![r].status = APPROVED,
                                    ![r].updated_at = utcnow(@)]
            /\ approveCalls' = [approveCalls EXCEPT ![i] = @ + 1]
            /\ UNCHANGED approvals
       ELSE UNCHANGED <<images, runs, approvals, approveCalls>>
    /\ UNCHANGED <<tasks, workerVars, auxVars>>

\* runs.py approve_run_image.
approve_run_image(r, i, by) ==
    /\ Len(approvals) < MaxApprovals
    /\ IF HasRunImage(r, i)
       THEN /\ images' = [images EXCEPT ![i].status = APPROVED]
            /\ runs' = [runs EXCEPT ![r].status = APPROVED,
                                    ![r].updated_at = utcnow(@)]
            /\ approvals' = Append(approvals, RunImageApproval(i, by))
            /\ approveCalls' = [approveCalls EXCEPT ![i] = @ + 1]
       ELSE UNCHANGED <<images, runs, approvals, approveCalls>>
    /\ UNCHANGED <<tasks, workerVars, auxVars>>

\* Mutant: a rejection closes the gap it leaves in the ordinals of the run.
reject_run_image_renumbering(r, i) ==
    /\ IF HasRunImage(r, i)
       THEN /\ images' =
              [k \in DOMAIN images |->
                 IF k = i THEN [images[k] EXCEPT !.status = REJECTED]
                 ELSE IF images[k].run_id = r
                         /\ images[k].ordinal > images[i].ordinal
                 THEN [images[k] EXCEPT !.ordinal = @ - 1]
                 ELSE images[k]]
            /\ runs' = [runs EXCEPT ![r].updated_at = utcnow(@)]
       ELSE UNCHANGED <<images, runs>>
    /\ UNCHANGED <<approvals, tasks, approveCalls, workerVars, auxVars>>

\* Mutant: a rejection takes an APPROVED run back to READY.
reject_run_image_demoting(r, i) ==
    /\ IF HasRunImage(r, i)
       THEN /\ images' = [images EXCEPT ![i].status = REJECTED]
            /\ runs' = IF runs[r].status = APPROVED
                       THEN [runs EXCEPT ![r].status = READY,
                                         ![r].updated_at = utcnow(@)]
                       ELSE [runs EXCEPT ![r].updated_at = utcnow(@)]
       ELSE UNCHANGED <<images, runs>>
    /\ UNCHANGED <<approvals, tasks, approveCalls, workerVars, auxVars>>

\* runs.py reject_run_image.
reject_run_image(r, i) ==
    /\ IF HasRunImage(r, i)
       THEN /\ images' = [images EXCEPT ![i].status = REJECTED]
            /\ runs' = [runs EXCEPT ![r].updated_at = utcnow(@)]
       ELSE UNCHANGED <<images, runs>>
    /\ UNCHANGED <<approvals, tasks, approveCalls, workerVars, auxVars>>

\* The orders in which a SELECT without ORDER BY can return the rows ids.
RowOrders(ids) ==
    {o \in [1..Cardinality(ids) -> ids] :
       \A a, b \in 1..Cardinality(ids) : a /= b => o[a] /= o[b]}

\* runs.py get_run: _get_run loads the run with selectinload(Run.images); the
\* relationship of models.py:49-51 names no order_by, so the images come in
\* the order the database returns them.
get_run(r) ==
    /\ IF HasRun(r)
       THEN \E o \in RowOrders({i \in ImageIds : images[i].run_id = r}) :
              resp' = [k \in DOMAIN o |-> images[o[k]].ordinal]
       ELSE UNCHANGED resp
    /\ UNCHANGED <<storeVars, workerVars, gen, links, linkTask, apprTask,
                   listed,
                   taggerVars>>

\* The runs that are QUEUED: the rows of the worker's poll (worker.py:36-38)
\* and of the count of list_runs (runs.py:74).
QueuedRuns == {r \in RunIds : runs[r].status = QUEUED}

\* models.py:14-19  the members of the RunStatus enumeration.
RunStatusNames == {"QUEUED", "GENERATING", "READY", "APPROVED", "ERROR"}

\* runs.py:74-84  the members of RunStatus that list_runs reads on every call,
\* whatever the filter.
ListRunsNames == {"QUEUED", "GENERATING", "READY", "POSTED"}

\* An attribute of the enumeration class that is no member raises
\* AttributeError where it is read.
ListRunsEvaluates == ListRunsNames \subseteq RunStatusNames

\* runs.py:77-82  the rows the statement selects: the filter if one is given,
\* else GENERATING and READY.
Selected(filter) ==
    {r \in RunIds :
       IF filter = Unset THEN runs[r].status \in {GENERATING, READY}
       ELSE runs[r].status = filter}

\* runs.py list_runs: the count of QUEUED runs, then the statement, whose
\* last where-clause reads RunStatus.POSTED; the request ends there with an
\* unhandled exception (a 500 response) unless the member exists.
list_runs(filter) ==
    /\ listed' =
         IF ListRunsEvaluates
         THEN [code |-> 200, runs |-> Selected(filter),
               queued_count |-> Cardinality(QueuedRuns)]
         ELSE [code |-> 500, runs |-> {}, queued_count |-> 0]
    /\ UNCHANGED <<storeVars, workerVars, gen, links, linkTask, apprTask,
                   resp,
                   taggerVars>>

\* ------------------------------------------------------------ Worker Loop
\* worker.py:36-38  filter(status == QUEUED).order_by(created_at.asc()).limit(1)
\* ORDER BY created_at ASC LIMIT 1 over a set of rows: the rows no other row
\* of the set precedes.  Among rows of one created_at the engine returns any.
Oldest(rs) ==
    {r \in rs : \A q \in rs : runs[r].created_at <= runs[q].created_at}

\* Mutant: the poll also takes runs that are GENERATING.
PollSelectUnfinished ==
    Oldest({r \in RunIds : runs[r].status \in {QUEUED, GENERATING}})

\* Mutant: the poll orders by created_at descending.
PollSelectNewest ==
    {r \in QueuedRuns :
       \A q \in QueuedRuns : runs[r].created_at >= runs[q].created_at}

\* The rows the poll's SELECT can return: empty when no run is QUEUED.
PollSelect == Oldest(QueuedRuns)

\* worker.py:34-41  the poll: one SELECT; with no row the worker sleeps and
\* polls again.
WPoll(w) ==
    /\ pc[w] = "poll"
    /\ IF PollSelect /= {}
       THEN \E r \in PollSelect :
              /\ wRun' = [wRun EXCEPT ![w] = r]
              /\ wLoaded' = [wLoaded EXCEPT ![w] = runs[r].status]
              /\ pc' = [pc EXCEPT ![w] = "claim"]
       ELSE UNCHANGED <<wRun, wLoaded, pc>>
    /\ UNCHANGED <<storeVars, wResult, wEngine, wPending, auxVars>>

\* The UPDATE a commit sends for run.status = st: the unit of work compares
\* the attribute with the value it loaded and writes the column, by primary
\* key alone, when they differ.
CommitStatus(r, loaded, st) ==
    IF loaded /= st THEN [runs EXCEPT ![r].status = st] ELSE runs

\* Mutant: the claim as a compare-and-set that gives up when the row is no
\* longer QUEUED.
WClaimCompareAndSet(w) ==
    /\ pc[w] = "claim"
    /\ IF runs[wRun[w]].status = QUEUED
       THEN /\ runs' = [runs EXCEPT ![wRun[w]].status = GENERATING]
            /\ pc' = [pc EXCEPT ![w] = "parse"]
            /\ UNCHANGED wRun
       ELSE /\ UNCHANGED runs
            /\ pc' = [pc EXCEPT ![w] = "poll"]
            /\ wRun' = [wRun EXCEPT ![w] = 0]
    /\ wLoaded' = [wLoaded EXCEPT ![w] = Unset]
    /\ UNCHANGED <<images, approvals, tasks, approveCalls, wResult, wEngine,
                   wPending, auxVars>>

\* worker.py:46-47  the claim: run.status = GENERATING; session.commit().
\* The commit expires the object.
WClaim(w) ==
    /\ pc[w] = "claim"
    /\ runs' = CommitStatus(wRun[w], wLoaded[w], GENERATING)
    /\ wLoaded' = [wLoaded EXCEPT ![w] = Unset]
    /\ pc' = [pc EXCEPT ![w] = "parse"]
    /\ UNCHANGED <<images, approvals, tasks, approveCalls, wRun, wResult,
                   wEngine, wPending, auxVars>>

\* worker.py:65  the counts int(parameters.get("image_count", 1)) can give.
ImageCounts == 0..MaxCount

\* worker.py:52-61  what run.parameter_blob can hold: a JSON object whose
\* fields convert, a string that is no JSON document, and a JSON object with
\* a field that int() or float() rejects.
BlobKinds == {"dict", "unparseable", "bad_field"}

\* worker.py:53-75  json.loads failing is caught at line 56 and the
\* parameters become {}, so every field takes its default; a field that
\* does not convert raises at lines 65-75.
ParseFails(blob) == blob = "bad_field"

\* Mutant: a field that does not convert takes its default as well.
WParseSwallows(w, blob) ==
    /\ pc[w] = "parse"
    /\ wLoaded' = [wLoaded EXCEPT ![w] = runs[wRun[w]].status]
    /\ pc' = [pc EXCEPT ![w] = "call"]
    /\ UNCHANGED <<storeVars, wRun, wResult, wEngine, wPending, auxVars>>

\* worker.py:52-83  run.parameter_blob reloads the expired row (status
\* included) and the parameters are read from it: either every value
\* converts, or int() or float() rejects one and raises inside the try of
\* line 49, and the handler of line 109 goes on to write ERROR.
WParseBlob(w, blob) ==
    /\ pc[w] = "parse"
    /\ wLoaded' = [wLoaded EXCEPT ![w] = runs[wRun[w]].status]
    /\ IF ParseFails(blob)
       THEN /\ wResult' = [wResult EXCEPT ![w] = ERROR]
            /\ pc' = [pc EXCEPT ![w] = "finalize"]
       ELSE /\ pc' = [pc EXCEPT ![w] = "call"]
            /\ UNCHANGED wResult
    /\ UNCHANGED <<storeVars, wRun, wEngine, wPending, auxVars>>

WParse(w) == \E blob \in BlobKinds : WParseBlob(w, blob)

\* What the engine gives for each of n requested images: TRUE an image,
\* FALSE an exception.
EngineOutcomes(n) == [1..n -> BOOLEAN]

\* The requests the generator can get: num_images is the length.  The
\* parameter_blob is written once, by create_run; its image_count is drawn
\* where it is used.
Requests == UNION {EngineOutcomes(n) : n \in ImageCounts}

\* generator.py:403-468  one pass of the loop body for index i (0-based):
\* an image that was produced is added to the session with ordinal i + 1 and
\* flushed; an exception is caught, logged and the loop continues.
LoopBody(r, i, ok, pending) ==
    IF ok THEN Append(pending, RunImage(r, i + 1)) ELSE pending

\* generator.py:403-468  for i in range(num_images): the rows the whole loop
\* leaves in the session.
RECURSIVE LoopFrom(_, _, _, _)
LoopFrom(r, i, out, pending) ==
    IF i >= Len(out) THEN pending
    ELSE LoopFrom(r, i + 1, out, LoopBody(r, i, out[i + 1], pending))

GeneratedRows(r, out) == LoopFrom(r, 0, out, <<>>)

\* generator.py:328-343  the parameters generate_images_for_run declares.
GenerateImagesForRunParams ==
    {"run_id", "prompt", "num_images", "output_dir", "negative_prompt",
     "num_inference_steps", "guidance_scale", "width", "height", "seed",
     "saturation_boost", "contrast_boost", "model_id", "session"}

\* worker.py:86-100  the keywords the worker passes.
WorkerCallKeywords ==
    {"model", "run_id", "prompt", "num_images", "negative_prompt",
     "num_inference_steps", "guidance_scale", "width", "height", "seed",
     "saturation_boost", "contrast_boost", "session"}

\* A keyword the callee does not declare raises TypeError at the call.
CallBinds == WorkerCallKeywords \subseteq GenerateImagesForRunParams

\* Mutant: the call binds (the worker passes no keyword the generator does
\* not declare), so the loop of the generator runs in the worker's session.
WCallBinding(w) ==
    /\ pc[w] = "call"
    /\ \E out \in Requests :
         /\ Len(images) + Len(GeneratedRows(wRun[w], out)) <= MaxImages
         /\ wEngine' = [wEngine EXCEPT ![w] = out]
         /\ wPending' = [wPending EXCEPT ![w] = GeneratedRows(wRun[w], out)]
         /\ wResult' = [wResult EXCEPT ![w] = READY]
    /\ pc' = [pc EXCEPT ![w] = "finalize"]
    /\ UNCHANGED <<storeVars, wRun, wLoaded, auxVars>>

\* worker.py:86-114  the call of generate_images_for_run, with the engine in
\* whatever condition it is in.  When the call returns, the rows of the
\* generator's loop are in the session and the worker goes on to write
\* READY; when it raises, nothing has run and the handler of line 109 goes
\* on to write ERROR.
WCall(w) ==
    /\ pc[w] = "call"
    /\ \E out \in Requests :
         LET rows == IF CallBinds THEN GeneratedRows(wRun[w], out) ELSE <<>>
         IN  /\ Len(images) + Len(rows) <= MaxImages
             /\ wEngine' = [wEngine EXCEPT ![w] = out]
             /\ wPending' = [wPending EXCEPT ![w] = rows]
             /\ wResult' = [wResult EXCEPT ![w] =
                              IF CallBinds THEN READY ELSE ERROR]
    /\ pc' = [pc EXCEPT ![w] = "finalize"]
    /\ UNCHANGED <<storeVars, wRun, wLoaded, auxVars>>

\* Mutant: the worker goes back to the poll without the final commit.
WFinalizeWithoutCommit(w) ==
    /\ pc[w] = "finalize"
    /\ pc' = [pc EXCEPT ![w] = "poll"]
    /\ wRun' = [wRun EXCEPT ![w] = 0]
    /\ wLoaded' = [wLoaded EXCEPT ![w] = Unset]
    /\ wResult' = [wResult EXCEPT ![w] = Unset]
    /\ wEngine' = [wEngine EXCEPT ![w] = <<>>]
    /\ wPending' = [wPending EXCEPT ![w] = <<>>]
    /\ UNCHANGED <<storeVars, auxVars>>

\* worker.py:103-104 and 114-115  run.status = READY / ERROR; session.commit():
\* the commit sends the status and makes the flushed rows durable.
WFinalize(w) ==
    /\ pc[w] = "finalize"
    /\ runs' = CommitStatus(wRun[w], wLoaded[w], wResult[w])
    /\ images' = images \o wPending[w]
    /\ pc' = [pc EXCEPT ![w] = "poll"]
    /\ wRun' = [wRun EXCEPT ![w] = 0]
    /\ wLoaded' = [wLoaded EXCEPT ![w] = Unset]
    /\ wResult' = [wResult EXCEPT ![w] = Unset]
    /\ wEngine' = [wEngine EXCEPT ![w] = <<>>]
    /\ wPending' = [wPending EXCEPT ![w] = <<>>]
    /\ UNCHANGED <<approvals, tasks, approveCalls, auxVars>>

\* worker.py:32-124  one iteration of the while loop, step by step.
Worker(w) ==
    \/ WPoll(w)
    \/ WClaim(w)
    \/ WParse(w)
    \/ WCall(w)
    \/ WFinalize(w)

\* The worker process dies (or the store fails and the exception leaves the
\* with-block of worker.py:34): the session is gone with everything it had
\* not committed, the store keeps what was committed.  wRun stays as the
\* record of the run the dead process held, until the restart.
WCrash(w) ==
    /\ pc[w] \in {"claim", "parse", "call", "finalize"}
    /\ pc' = [pc EXCEPT ![w] = "down"]
    /\ wLoaded' = [wLoaded EXCEPT ![w] = Unset]
    /\ wResult' = [wResult EXCEPT ![w] = Unset]
    /\ wEngine' = [wEngine EXCEPT ![w] = <<>>]
    /\ wPending' = [wPending EXCEPT ![w] = <<>>]
    /\ UNCHANGED <<storeVars, wRun, auxVars>>

\* worker.py:15-32 (a new process) or 119-124 (the except of the loop): the
\* worker is at the top of the loop again, with no memory of the run.
WStart(w) ==
    /\ pc[w] = "down"
    /\ pc' = [pc EXCEPT ![w] = "poll"]
    /\ wRun' = [wRun EXCEPT ![w] = 0]
    /\ UNCHANGED <<storeVars, wLoaded, wResult, wEngine, wPending, auxVars>>

\* ------------------------------------------- generate_images_for_run
\* generator.py:328-401  a call of generate_images_for_run for run r with
\* num_images = n and no session: the function opens its own (db.py
\* get_db_session), loads the model and enters the loop.
GenStart(r, n) ==
    /\ gen.pc = "idle"
    /\ HasRun(r)
    /\ gen' = [pc |-> "loop", run |-> r, num |-> n, i |-> 0, pending |-> <<>>]
    /\ UNCHANGED <<storeVars, workerVars, links, linkTask, apprTask, resp, listed,
                   taggerVars>>

\* generator.py:403-468  one pass of the loop: the engine gives an image,
\* which save_run_image_to_db adds and flushes, or raises, which is logged.
GenIterate ==
    /\ gen.pc = "loop"
    /\ gen.i < gen.num
    /\ \E ok \in BOOLEAN :
         /\ Len(images) + Len(LoopBody(gen.run, gen.i, ok, gen.pending))
              <= MaxImages
         /\ gen' = [gen EXCEPT
                      !.pending = LoopBody(gen.run, gen.i, ok, gen.pending),
                      !.i = gen.i + 1]
    /\ UNCHANGED <<storeVars, workerVars, links, linkTask, apprTask, resp, listed,
                   taggerVars>>

\* generator.py:470-472 and db.py get_db_session  the loop is over, the
\* function returns and the session commits on leaving the with block.
GenReturn ==
    /\ gen.pc = "loop"
    /\ gen.i = gen.num
    /\ images' = images \o gen.pending
    /\ gen' = IdleGen
    /\ UNCHANGED <<runs, approvals, tasks, approveCalls, workerVars, links,
                   linkTask, apprTask, resp, listed,
                   taggerVars>>

\* The process is killed inside the loop: the transaction of its session is
\* never committed.
GenDie ==
    /\ gen.pc = "loop"
    /\ gen' = IdleGen
    /\ UNCHANGED <<storeVars, workerVars, links, linkTask, apprTask, resp, listed,
                   taggerVars>>

\* --------------------------------------------------- Webhook Dispatcher
\* Mutant: the handler delivers the webhook itself, before it returns.
create_link_submission_inline ==
    /\ Len(links) < MaxLinks
    /\ linkTask.pc = "idle"
    /\ links' = Append(links, [LinkSubmission EXCEPT !.webhook_attempts = 1])
    /\ linkTask' = [pc |-> "post", id |-> Len(links) + 1,
                    loaded |-> LinkSubmission, last |-> "none"]
    /\ UNCHANGED <<runs, images, approvals, tasks, approveCalls, workerVars,
                   gen, apprTask, resp, listed,
                   taggerVars>>

\* links.py create_link_submission: the row is committed and the dispatcher
\* is scheduled as a background task of the request.
create_link_submission ==
    /\ Len(links) < MaxLinks
    /\ links' = Append(links, LinkSubmission)
    /\ tasks' = Append(tasks, Len(links) + 1)
    /\ UNCHANGED <<runs, images, approvals, approveCalls, workerVars, gen,
                   linkTask, apprTask, resp, listed,
                   taggerVars>>

\* Mutant: without a target URL the dispatcher returns at once, as the
\* approval dispatcher does.
LinkStartSkipsNoUrl(url) ==
    /\ linkTask.pc = "idle"
    /\ tasks /= <<>>
    /\ tasks' = Tail(tasks)
    /\ LET s == Head(tasks) IN
       IF s \notin DOMAIN links \/ ~url
       THEN /\ linkTask' = [IdleTask EXCEPT !.id = s,
                              !.last = IF url THEN "absent" ELSE "nourl"]
            /\ UNCHANGED links
       ELSE /\ links' = [links EXCEPT ![s].webhook_attempts = @ + 1]
            /\ linkTask' = [pc |-> "post", id |-> s,
                            loaded |-> Triple(links[s]), last |-> "none"]
    /\ UNCHANGED <<runs, images, approvals, approveCalls, workerVars, gen,
                   apprTask, resp, listed,
                   taggerVars>>

\* links.py:18-48  _post_link_submission_webhook up to the POST, for the
\* next scheduled task.  Without a target URL the row is marked SENT and its
\* attempts counted; with one, the attempt is counted and committed, and the
\* POST follows.
LinkStart(url) ==
    /\ linkTask.pc = "idle"
    /\ tasks /= <<>>
    /\ tasks' = Tail(tasks)
    /\ LET s == Head(tasks) IN
       IF s \notin DOMAIN links
       THEN /\ linkTask' = [IdleTask EXCEPT !.id = s, !.last = "absent"]
            /\ UNCHANGED links
       ELSE IF ~url
       THEN /\ links' = [links EXCEPT
                           ![s].webhook_status = SENT,
                           ![s].webhook_attempts = @ + 1]
            /\ linkTask' = [pc |-> "idle", id |-> s,
                            loaded |-> Triple(links[s]), last |-> "nourl"]
       ELSE /\ links' = [links EXCEPT ![s].webhook_attempts = @ + 1]
            /\ linkTask' = [pc |-> "post", id |-> s,
                            loaded |-> Triple(links[s]), last |-> "none"]
    /\ UNCHANGED <<runs, images, approvals, approveCalls, workerVars, gen,
                   apprTask, resp, listed,
                   taggerVars>>

\* How a POST can end: a 2xx response, an exception, or the death of the
\* process that issued it.
PostOutcomes == {"ok", "fail", "die"}

\* Mutant: a POST that fails is issued again.
LinkPostRetrying(outcome, err) ==
    /\ linkTask.pc = "post"
    /\ links' =
         IF outcome = "ok"
         THEN [links EXCEPT ![linkTask.id].webhook_status = SENT,
                            ![linkTask.id].webhook_last_error = None]
         ELSE IF outcome = "fail"
         THEN [links EXCEPT ![linkTask.id].webhook_status = FAILED,
                            ![linkTask.id].webhook_last_error = err]
         ELSE links
    /\ linkTask' = IF outcome = "fail" /\ links[linkTask.id].webhook_status /= FAILED
                   THEN linkTask
                   ELSE [linkTask EXCEPT !.pc = "idle", !.last = outcome]
    /\ UNCHANGED <<runs, images, approvals, tasks, approveCalls, workerVars,
                   gen, apprTask, resp, listed,
                   taggerVars>>

\* links.py:50-70  the POST and the commit of its outcome, each in a new
\* session.
LinkPost(outcome, err) ==
    /\ linkTask.pc = "post"
    /\ links' =
         IF outcome = "ok"
         THEN [links EXCEPT ![linkTask.id].webhook_status = SENT,
                            ![linkTask.id].webhook_last_error = None]
         ELSE IF outcome = "fail"
         THEN [links EXCEPT ![linkTask.id].webhook_status = FAILED,
                            ![linkTask.id].webhook_last_error = err]
         ELSE links
    /\ linkTask' = [linkTask EXCEPT !.pc = "idle", !.last = outcome]
    /\ UNCHANGED <<runs, images, approvals, tasks, approveCalls, workerVars,
                   gen, apprTask, resp, listed,
                   taggerVars>>

\* webhooks.py:11-34  enqueue_run_image_approval_webhook(a) up to the POST.
\* Without a target URL it returns at once; with one it loads the row and
\* counts the attempt on the loaded object, in a session that stays open
\* over the POST.
ApprStart(a, url) ==
    /\ apprTask.pc = "idle"
    /\ IF ~url
       THEN apprTask' = [IdleTask EXCEPT !.id = a, !.last = "nourl"]
       ELSE IF a \notin DOMAIN approvals
       THEN apprTask' = [IdleTask EXCEPT !.id = a, !.last = "absent"]
       ELSE /\ approvals[a].webhook_attempts < MaxAttempts
            /\ apprTask' = [pc |-> "post", id |-> a,
                            loaded |-> Triple(approvals[a]), last |-> "none"]
    /\ UNCHANGED <<storeVars, workerVars, gen, links, linkTask, resp, listed,
                   taggerVars>>

\* Mutant: the dispatcher signs the row it delivered.
ApprPostSignsRow(outcome, err) ==
    /\ apprTask.pc = "post"
    /\ approvals' =
         IF outcome = "ok"
         THEN [approvals EXCEPT
                 ![apprTask.id].webhook_attempts
                     = apprTask.loaded.webhook_attempts + 1,
                 ![apprTask.id].webhook_status = SENT,
                 ![apprTask.id].webhook_last_error = None,
                 ![apprTask.id].approved_by = "n8n"]
         ELSE IF outcome = "fail"
         THEN [approvals EXCEPT
                 ![apprTask.id].webhook_attempts
                     = apprTask.loaded.webhook_attempts + 1,
                 ![apprTask.id].webhook_status = FAILED,
                 ![apprTask.id].webhook_last_error = err]
         ELSE approvals
    /\ apprTask' = [apprTask EXCEPT !.pc = "idle", !.last = outcome]
    /\ UNCHANGED <<runs, images, tasks, approveCalls, workerVars, gen, links,
                   linkTask, resp, listed,
                   taggerVars>>

\* Mutant: a delivery that succeeds leaves the error text of the earlier
\* failure in place.
ApprPostKeepsError(outcome, err) ==
    /\ apprTask.pc = "post"
    /\ approvals' =
         IF outcome = "ok"
         THEN [approvals EXCEPT
                 ![apprTask.id].webhook_attempts
                     = apprTask.loaded.webhook_attempts + 1,
                 ![apprTask.id].webhook_status = SENT]
         ELSE IF outcome = "fail"
         THEN [approvals EXCEPT
                 ![apprTask.id].webhook_attempts
                     = apprTask.loaded.webhook_attempts + 1,
                 ![apprTask.id].webhook_status = FAILED,
                 ![apprTask.id].webhook_last_error = err]
         ELSE approvals
    /\ apprTask' = [apprTask EXCEPT !.pc = "idle", !.last = outcome]
    /\ UNCHANGED <<runs, images, tasks, approveCalls, workerVars, gen, links,
                   linkTask, resp, listed,
                   taggerVars>>

\* webhooks.py:36-51  the POST and the one commit of the session: the
\* counted attempt and the outcome reach the store together.  Anything but an
\* httpx.HTTPError leaves the function, and the session, without a commit.
ApprPost(outcome, err) ==
    /\ apprTask.pc = "post"
    /\ approvals' =
         IF outcome = "ok"
         THEN [approvals EXCEPT
                 ![apprTask.id].webhook_attempts
                     = apprTask.loaded.webhook_attempts + 1,
                 ![apprTask.id].webhook_status = SENT,
                 ![apprTask.id].webhook_last_error = None]
         ELSE IF outcome = "fail"
         THEN [approvals EXCEPT
                 ![apprTask.id].webhook_attempts
                     = apprTask.loaded.webhook_attempts + 1,
                 ![apprTask.id].webhook_status = FAILED,
                 ![apprTask.id].webhook_last_error = err]
         ELSE approvals
    /\ apprTask' = [apprTask EXCEPT !.pc = "idle", !.last = outcome]
    /\ UNCHANGED <<runs, images, tasks, approveCalls, workerVars, gen, links,
                   linkTask, resp, listed,
                   taggerVars>>

\* ------------------------------------------------- wd14_tagger.py
\* What a call of _ensure_loaded leaves alone.
outsideTagger == <<storeVars, workerVars, gen, links, linkTask, apprTask,
                   resp, listed>>

\* _session and callRead hold 0 for None; _tags holds None or the list.
TagList == "parsed"

\* Whether an operation of the call (download, InferenceSession, the CSV)
\* succeeds.
Outcomes == {"ok", "fail"}

\* A thread enters _ensure_loaded.
TCall(t) ==
    /\ callPc[t] = "idle"
    /\ callPc' = [callPc EXCEPT ![t] = "fast_session"]
    /\ callRet' = [callRet EXCEPT ![t] = NoResult]
    /\ UNCHANGED <<session, tags, lock, callRead, constructed, returned,
                   outsideTagger>>

\* wd14_tagger.py:35 and 39  if _session is not None and _tags is not None:
\* the two globals are read one after the other.  here is the position of
\* the read, hit and miss are where the call goes on.
TCheckSession(t, here, hit, miss) ==
    /\ callPc[t] = here
    /\ callPc' = [callPc EXCEPT ![t] = IF session /= 0 THEN hit ELSE miss]
    /\ UNCHANGED <<session, tags, lock, callRead, callRet, constructed,
                   returned, outsideTagger>>

TCheckTags(t, here, hit, miss) ==
    /\ callPc[t] = here
    /\ callPc' = [callPc EXCEPT ![t] = IF tags /= None THEN hit ELSE miss]
    /\ UNCHANGED <<session, tags, lock, callRead, callRet, constructed,
                   returned, outsideTagger>>

\* wd14_tagger.py:36, 40 and 79  return _session, _tags: _session is read.
TReadSession(t, here, next) ==
    /\ callPc[t] = here
    /\ callRead' = [callRead EXCEPT ![t] = session]
    /\ callPc' = [callPc EXCEPT ![t] = next]
    /\ UNCHANGED <<session, tags, lock, callRet, constructed, returned,
                   outsideTagger>>

\* ... then _tags is read and the pair returned; leaving the with block
\* (locked) releases the lock.
TReturn(t, here, locked) ==
    /\ callPc[t] = here
    /\ callRet' = [callRet EXCEPT ![t] = Pair(callRead[t], tags)]
    /\ callRead' = [callRead EXCEPT ![t] = 0]
    /\ callPc' = [callPc EXCEPT ![t] = "idle"]
    /\ lock' = IF locked THEN 0 ELSE lock
    /\ returned' = TRUE
    /\ UNCHANGED <<session, tags, constructed, outsideTagger>>

\* Mutant: the with block is entered without waiting for the lock.
TAcquireUnlocked(t) ==
    /\ callPc[t] = "acquire"
    /\ lock' = t
    /\ callPc' = [callPc EXCEPT ![t] = "slow_session"]
    /\ UNCHANGED <<session, tags, callRead, callRet, constructed, returned,
                   outsideTagger>>

\* wd14_tagger.py:38  with _lock: the thread waits until the lock is free.
TAcquire(t) ==
    /\ callPc[t] = "acquire"
    /\ lock = 0
    /\ lock' = t
    /\ callPc' = [callPc EXCEPT ![t] = "slow_session"]
    /\ UNCHANGED <<session, tags, callRead, callRet, constructed, returned,
                   outsideTagger>>

\* An except clause of the with block: WD14TaggerError leaves the call and
\* the lock is released.
TRaise(t) ==
    /\ callRet' = [callRet EXCEPT ![t] = Raised]
    /\ callPc' = [callPc EXCEPT ![t] = "idle"]
    /\ lock' = 0

\* wd14_tagger.py:45-57  the two hf_hub_download calls.
TDownload(t) ==
    /\ callPc[t] = "download"
    /\ \E outcome \in Outcomes :
         IF outcome = "ok"
         THEN /\ callPc' = [callPc EXCEPT ![t] = "load"]
              /\ UNCHANGED <<lock, callRet>>
         ELSE TRaise(t)
    /\ UNCHANGED <<session, tags, callRead, constructed, returned,
                   outsideTagger>>

\* wd14_tagger.py:59-63  _session = ort.InferenceSession(...): a session is
\* built and assigned, or the constructor raises and _session is left.
TLoad(t) ==
    /\ callPc[t] = "load"
    /\ constructed < MaxBuilds
    /\ \E outcome \in Outcomes :
         IF outcome = "ok"
         THEN /\ constructed' = constructed + 1
              /\ session' = constructed + 1
              /\ callPc' = [callPc EXCEPT ![t] = "parse"]
              /\ UNCHANGED <<lock, callRet>>
         ELSE /\ TRaise(t)
              /\ UNCHANGED <<session, constructed>>
    /\ UNCHANGED <<tags, callRead, returned, outsideTagger>>

\* wd14_tagger.py:65-77  the CSV is parsed and _tags assigned; an empty or
\* unreadable file raises and _tags is left.
TParse(t) ==
    /\ callPc[t] = "parse"
    /\ \E outcome \in Outcomes :
         IF outcome = "ok"
         THEN /\ tags' = TagList
              /\ callPc' = [callPc EXCEPT ![t] = "slow_ret"]
              /\ UNCHANGED <<lock, callRet>>
         ELSE /\ TRaise(t)
              /\ UNCHANGED tags
    /\ UNCHANGED <<session, callRead, constructed, returned, outsideTagger>>

\* wd14_tagger.py _ensure_loaded: one step of the call of thread t.
EnsureLoaded(t) ==
    \/ TCall(t)
    \/ TCheckSession(t, "fast_session", "fast_tags", "acquire")
    \/ TCheckTags(t, "fast_tags", "fast_ret", "acquire")
    \/ TReadSession(t, "fast_ret", "fast_return")
    \/ TReturn(t, "fast_return", FALSE)
    \/ TAcquire(t)
    \/ TCheckSession(t, "slow_session", "slow_tags", "download")
    \/ TCheckTags(t, "slow_tags", "slow_ret", "download")
    \/ TReadSession(t, "slow_ret", "slow_return")
    \/ TReturn(t, "slow_return", TRUE)
    \/ TDownload(t)
    \/ TLoad(t)
    \/ TParse(t)

\* ------------------------------------------------------- specifications
CreateRun ==
    \E given \in RunStatus \cup {Unset}, ords \in ImageLists :
        create_run(given, ords)

AppendImages ==
    \E r \in 1..MaxRuns, ords \in ImageLists : add_run_images(r, ords)

ApproveImage ==
    \E r \in 1..MaxRuns, i \in 1..MaxImages, by \in Approvers :
        approve_run_image(r, i, by)

RejectImage ==
    \E r \in 1..MaxRuns, i \in 1..MaxImages : reject_run_image(r, i)

UpdateRunStatus ==
    \E r \in 1..MaxRuns, st \in RunStatus : update_run_status(r, st)

\* The deployment the design assumes: the API and one worker.
Next ==
    \/ CreateRun
    \/ AppendImages
    \/ ApproveImage
    \/ RejectImage
    \/ UpdateRunStatus
    \/ \E w \in SingleWorker : Worker(w)

Spec == Init /\ [][Next]_vars

\* The same without the administrative override.
NextNoOverride ==
    \/ CreateRun
    \/ AppendImages
    \/ ApproveImage
    \/ RejectImage
    \/ \E w \in SingleWorker : Worker(w)

SpecNoOverride == Init /\ [][NextNoOverride]_vars

\* The request handlers alone.  A handler reads and writes the three tables
\* and nothing of a worker's session, and the only thing a worker writes is
\* the status of a run, which update_run_status sets to any value: the
\* handlers meet the same rows here as next to a worker.
NextApi ==
    \/ CreateRun
    \/ AppendImages
    \/ ApproveImage
    \/ RejectImage
    \/ UpdateRunStatus

SpecApi == Init /\ [][NextApi]_vars

\* The worker reads and writes nothing but the status column of runs, and
\* approve_run_image is the only other handler that writes it (APPROVED,
\* which update_run_status writes too).  The worker's claims are therefore
\* checked on the runs table alone: requests that create runs without images
\* and set statuses, next to the worker or workers.
CreateRunNoImages ==
    \E given \in RunStatus \cup {Unset} : create_run(given, <<>>)

\* One worker process, with the administrative override.
NextWorker ==
    \/ CreateRunNoImages
    \/ UpdateRunStatus
    \/ \E w \in SingleWorker : Worker(w)

SpecWorker == Init /\ [][NextWorker]_vars

\* Two worker processes on the same store, no administrative override.
NextTwoWorkers ==
    \/ CreateRunNoImages
    \/ \E w \in TwoWorkers : Worker(w)

SpecTwoWorkers == Init /\ [][NextTwoWorkers]_vars

\* One worker process on the runs table, no administrative override: a run
\* leaves QUEUED only through the worker's claim.
NextOneWorker ==
    \/ CreateRunNoImages
    \/ \E w \in SingleWorker : Worker(w)

SpecOneWorker == Init /\ [][NextOneWorker]_vars

\* One worker process that does not die and whose steps all return: the loop
\* of worker.py:32-124 goes on for ever, sleeping poll_interval seconds
\* between polls, so a step of the worker that is possible is taken.
SpecOneWorkerFair ==
    /\ Init
    /\ [][NextOneWorker]_vars
    /\ \A w \in SingleWorker : WF_vars(Worker(w))

\* The first request of a deployment: a run, with or without images.
CreateFirstRun == runs = <<>> /\ CreateRun

\* Everything that reads or writes the images of one run: the handlers of
\* runs.py and the worker.
NextImages ==
    \/ CreateFirstRun
    \/ AppendImages
    \/ ApproveImage
    \/ RejectImage
    \/ UpdateRunStatus
    \/ \E w \in SingleWorker : Worker(w)

SpecImages == Init /\ [][NextImages]_vars

\* One worker process that can die and be started again, next to the
\* requests that create runs and set their statuses.
NextCrash ==
    \/ CreateRunNoImages
    \/ UpdateRunStatus
    \/ \E w \in SingleWorker : Worker(w)
    \/ \E w \in SingleWorker : WCrash(w)
    \/ \E w \in SingleWorker : WStart(w)

SpecCrash == Init /\ [][NextCrash]_vars

\* generate_images_for_run called on its own for runs that exist, as its
\* signature allows.
NextGenerator ==
    \/ CreateRunNoImages
    \/ \E r \in 1..MaxRuns, n \in ImageCounts : GenStart(r, n)
    \/ GenIterate
    \/ GenReturn
    \/ GenDie

SpecGenerator == Init /\ [][NextGenerator]_vars

GetRun == \E r \in 1..MaxRuns : get_run(r)

\* The requests that write and read the images of runs.
NextRead ==
    \/ CreateRun
    \/ AppendImages
    \/ GetRun

SpecRead == Init /\ [][NextRead]_vars

PostRuns ==
    \E p \in Prompts, given \in RunStatus \cup {Unset}, ords \in ImageLists :
        post_runs(p, given, ords)

\* The requests that create runs and images, with the validation of the
\* request body.
NextCreate ==
    \/ PostRuns
    \/ AppendImages

SpecCreate == Init /\ [][NextCreate]_vars

ListRuns == \E filter \in RunStatus \cup {Unset} : list_runs(filter)

\* The requests that set the statuses of runs and list them.
NextList ==
    \/ CreateRunNoImages
    \/ UpdateRunStatus
    \/ ListRuns

SpecList == Init /\ [][NextList]_vars

CreateLinkSubmission == create_link_submission

PostLinkSubmissionWebhook ==
    \/ \E url \in BOOLEAN : LinkStart(url)
    \/ \E outcome \in PostOutcomes, err \in ErrorTexts : LinkPost(outcome, err)

EnqueueRunImageApprovalWebhook ==
    \/ \E a \in 1..MaxApprovals, url \in BOOLEAN : ApprStart(a, url)
    \/ \E outcome \in PostOutcomes, err \in ErrorTexts : ApprPost(outcome, err)

\* The first request of a deployment: a run with one image to approve.
CreateRunOneImage == runs = <<>> /\ create_run(Unset, <<1>>)

\* The two dispatchers next to the requests that make their records: link
\* submissions, and approvals of the image of one run.  The approval
\* dispatcher is called for any approval id, any number of times.
NextDispatch ==
    \/ CreateLinkSubmission
    \/ PostLinkSubmissionWebhook
    \/ CreateRunOneImage
    \/ ApproveImage
    \/ EnqueueRunImageApprovalWebhook

SpecDispatch == Init /\ [][NextDispatch]_vars

\* The tagger alone: threads of the API process calling _ensure_loaded.
NextTagger == \E t \in Callers : EnsureLoaded(t)

SpecTagger == Init /\ [][NextTagger]_vars

\* ------------------------------------------------------------- claims
\* The transitions of section 4.3 of the design.
ForwardTransitions ==
    {<<QUEUED, GENERATING>>, <<GENERATING, READY>>, <<GENERATING, ERROR>>,
     <<READY, APPROVED>>}

\* The positions of the worker between its claim and its final commit.
Processing == {"parse", "call", "finalize"}

ApprovalsOf(i) == {a \in DOMAIN approvals : approvals[a].run_image_id = i}

\* C1: without update_run_status, every change of a run's status is one of
\* QUEUED->GENERATING, GENERATING->READY, GENERATING->ERROR, READY->APPROVED.
C1_OnlyForwardTransitions ==
    [][\A r \in RunIds :
         runs'[r].status /= runs[r].status
           => <<runs[r].status, runs'[r].status>> \in ForwardTransitions]_vars

\* C2: without update_run_status, a run that is APPROVED stays APPROVED in
\* every later state, whatever the worker and the rejections do.
C2_ApprovedIsStable ==
    [][\A r \in RunIds :
         runs[r].status = APPROVED => runs'[r].status = APPROVED]_vars

\* C3: with one worker, the run the poll selects is QUEUED at the poll, so
\* never one that is GENERATING, and right after the claim commit the run's
\* stored status is GENERATING.
C3_ClaimObservable ==
    [][\A w \in SingleWorker :
         /\ (pc[w] = "poll" /\ pc'[w] = "claim")
              => /\ runs[wRun'[w]].status = QUEUED
                 /\ runs[wRun'[w]].status /= GENERATING
         /\ (pc[w] = "claim" /\ pc'[w] = "parse")
              => runs'[wRun[w]].status = GENERATING]_vars

\* C3 witness: the worker has just committed a claim and the run it holds is
\* GENERATING in the store.
C3_Witness ==
    \E w \in SingleWorker :
        /\ pc[w] = "parse"
        /\ wRun[w] \in RunIds
        /\ runs[wRun[w]].status = GENERATING

\* C4: with two workers the claim is a read followed by an unconditional
\* write: a worker that selected a run always goes on to write GENERATING
\* and to process the run, whatever the row's status has become since its
\* SELECT.
C4_ClaimIsUnconditional ==
    [][\A w \in TwoWorkers :
         (pc[w] = "claim" /\ pc'[w] /= "claim")
           => /\ pc'[w] = "parse"
              /\ wRun'[w] = wRun[w]
              /\ runs'[wRun[w]].status = GENERATING]_vars

\* C4 witness: both workers have claimed the same run and are processing it.
C4_DoubleClaim ==
    /\ pc[1] \in Processing
    /\ pc[2] \in Processing
    /\ wRun[1] = wRun[2]
    /\ runs[wRun[1]].status = GENERATING

\* C5: an approval of an image of the run makes the image APPROVED, appends
\* exactly one approval row for that image, keeps the rows that existed, makes
\* the run APPROVED whatever its status was, and adds no run and no image.
C5_ApproveEffect ==
    [][\A r \in 1..MaxRuns, i \in 1..MaxImages, by \in Approvers :
         (HasRunImage(r, i) /\ approve_run_image(r, i, by))
           => /\ images'[i].status = APPROVED
              /\ Len(approvals') = Len(approvals) + 1
              /\ approvals'[Len(approvals')].run_image_id = i
              /\ SubSeq(approvals', 1, Len(approvals)) = approvals
              /\ runs'[r].status = APPROVED
              /\ Len(runs') = Len(runs)
              /\ Len(images') = Len(images)]_vars

\* C5 witness: an image has been approved once, it and its run are APPROVED
\* and there is one approval row.
C5_Witness ==
    \E i \in ImageIds :
        /\ approveCalls[i] = 1
        /\ images[i].status = APPROVED
        /\ runs[images[i].run_id].status = APPROVED
        /\ Len(approvals) = 1

\* C6: approving an image that is already APPROVED succeeds, leaves image and
\* run APPROVED and appends one more row; after k approvals of an image there
\* are exactly k approval rows for it.
C6_ReApprove ==
    /\ [](\A i \in ImageIds : Cardinality(ApprovalsOf(i)) = approveCalls[i])
    /\ [][\A r \in 1..MaxRuns, i \in 1..MaxImages, by \in Approvers :
            (/\ HasRunImage(r, i)
             /\ images[i].status = APPROVED
             /\ approve_run_image(r, i, by))
              => /\ images'[i].status = APPROVED
                 /\ runs'[r].status = APPROVED
                 /\ approveCalls'[i] = approveCalls[i] + 1
                 /\ Len(approvals') = Len(approvals) + 1
                 /\ approvals'[Len(approvals')].run_image_id = i]_vars

\* C6 witness: one image approved twice, with two approval rows.
C6_Witness ==
    \E i \in ImageIds :
        /\ approveCalls[i] = 2
        /\ Cardinality(ApprovalsOf(i)) = 2
        /\ images[i].status = APPROVED
        /\ runs[images[i].run_id].status = APPROVED

\* C7: APPROVED and REJECTED are terminal for an image: its status changes
\* only from GENERATED.
C7_ImageStatusTerminal ==
    [][\A i \in ImageIds :
         images[i].status /= GENERATED
           => images'[i].status = images[i].status]_vars

\* C8: a rejection makes the image REJECTED, changes the status of no run,
\* adds no approval row and schedules no webhook task, whatever the statuses
\* were.
C8_RejectEffect ==
    [][\A r \in 1..MaxRuns, i \in 1..MaxImages :
         (HasRunImage(r, i) /\ reject_run_image(r, i))
           => /\ images'[i].status = REJECTED
              /\ Len(runs') = Len(runs)
              /\ \A q \in RunIds : runs'[q].status = runs[q].status
              /\ approvals' = approvals
              /\ tasks' = tasks]_vars

\* C8 witness: an image that had been approved is now REJECTED and its run
\* is still APPROVED.
C8_Witness ==
    \E i \in ImageIds :
        /\ images[i].status = REJECTED
        /\ approveCalls[i] >= 1
        /\ runs[images[i].run_id].status = APPROVED

\* C9: an approval or rejection of image i of run r changes no other image
\* and no other run.
C9_OthersUnchanged ==
    [][\A r \in 1..MaxRuns, i \in 1..MaxImages :
         (/\ HasRunImage(r, i)
          /\ \/ reject_run_image(r, i)
             \/ \E by \in Approvers : approve_run_image(r, i, by))
           => /\ \A j \in ImageIds \ {i} : images'[j] = images[j]
              /\ \A q \in RunIds \ {r} : runs'[q] = runs[q]
              /\ Len(images') = Len(images)
              /\ Len(runs') = Len(runs)]_vars

\* C9 witness: an approved image next to an image of the same run that is
\* still GENERATED, and a second run that is not APPROVED.
C9_Witness ==
    \E i \in ImageIds, j \in ImageIds, q \in RunIds :
        /\ i /= j
        /\ images[i].run_id = images[j].run_id
        /\ images[i].status = APPROVED
        /\ approveCalls[i] >= 1
        /\ images[j].status = GENERATED
        /\ q /= images[i].run_id
        /\ runs[q].status /= APPROVED

\* C10: a run created without an explicit status is QUEUED when it comes
\* with no image and READY when it comes with images.
C10_CreateDefaultStatus ==
    [][\A ords \in ImageLists :
         create_run(Unset, ords)
           => runs'[Len(runs')].status
                = IF ords = <<>> THEN QUEUED ELSE READY]_vars

\* models.py Run.images: the ids of the rows of imgs that belong to run r.
RowsOf(imgs, r) == {i \in DOMAIN imgs : imgs[i].run_id = r}

\* The requested images the engine gives an image for.
Produced(out) == {k \in DOMAIN out : out[k]}

\* Worker w commits the final status of the run it holds.
Finalizes(w) == pc[w] = "finalize" /\ pc'[w] = "poll"

\* C11: when the worker has claimed a run that requests N >= 1 images and the
\* engine gives an image for each, the final commit leaves the run READY with
\* exactly N rows, all GENERATED, with ordinals 1..N.
C11_AllSucceedReady ==
    [][\A w \in SingleWorker :
         (/\ Finalizes(w)
          /\ Len(wEngine[w]) >= 1
          /\ Produced(wEngine[w]) = DOMAIN wEngine[w])
           => /\ runs'[wRun[w]].status = READY
              /\ Cardinality(RowsOf(images', wRun[w])) = Len(wEngine[w])
              /\ {images'[i].ordinal : i \in RowsOf(images', wRun[w])}
                   = 1..Len(wEngine[w])
              /\ \A i \in RowsOf(images', wRun[w]) :
                   images'[i].status = GENERATED]_vars

C13_FailureDoesNotAbort ==
    [][\A w \in SingleWorker :
         (/\ Finalizes(w)
          /\ Produced(wEngine[w]) /= {}
          /\ Produced(wEngine[w]) /= DOMAIN wEngine[w])
           => /\ Cardinality(RowsOf(images', wRun[w]))
                   = Cardinality(Produced(wEngine[w]))
              /\ runs'[wRun[w]].status /= GENERATING]_vars

\* C14: the images produced for a run are stored with the next ordinal: the
\* k rows a generation has persisted so far have the ordinals 1..k in the
\* order of production, also when requested images failed in between.
C14_NextOrdinal ==
    /\ \A j \in DOMAIN gen.pending : gen.pending[j].ordinal = j
    /\ \A w \in AllWorkers :
         \A j \in DOMAIN wPending[w] : wPending[w][j].ordinal = j

\* C15: a produced image is committed before the next one is attempted: no
\* row a running generation has produced is missing from the store.
C15_PersistedAsProduced ==
    /\ \A j \in DOMAIN gen.pending :
         \E i \in RowsOf(images, gen.run) : images[i] = gen.pending[j]
    /\ \A w \in AllWorkers :
         \A j \in DOMAIN wPending[w] :
           \E i \in RowsOf(images, wRun[w]) : images[i] = wPending[w][j]

\* C16: no two RunImage rows of the same run have the same ordinal.
C16_UniqueOrdinals ==
    \A i, j \in ImageIds :
        (i /= j /\ images[i].run_id = images[j].run_id)
          => images[i].ordinal /= images[j].ordinal

\* C17: the images of a GetRun response are in ascending order of ordinal.
C17_GetRunAscending ==
    \A a, b \in DOMAIN resp : a < b => resp[a] <= resp[b]

\* The ways a call of a dispatcher returns: no target URL, POST answered,
\* POST failed.
Returned == {"nourl", "ok", "fail"}

\* This step ends a call of the link dispatcher on an existing record.
LinkCompletes ==
    /\ linkTask' /= linkTask
    /\ linkTask'.pc = "idle"
    /\ linkTask'.last \in Returned
    /\ linkTask'.id \in DOMAIN links

\* This step ends a call of the approval dispatcher on an existing record.
ApprCompletes ==
    /\ apprTask' /= apprTask
    /\ apprTask'.pc = "idle"
    /\ apprTask'.last \in Returned
    /\ apprTask'.id \in DOMAIN approvals

\* The stored webhook_attempts of the record when the call that this step
\* ends began.
ApprAttemptsBefore ==
    IF apprTask.pc = "post" THEN apprTask.loaded.webhook_attempts
    ELSE approvals[apprTask'.id].webhook_attempts

\* C18: a call of either dispatcher on an existing record, whether it ends
\* with a success, a failure or no target URL, leaves webhook_attempts one
\* higher than it found it, and no step lowers webhook_attempts.
C18_AttemptsPlusOne ==
    [][/\ LinkCompletes
            => links'[linkTask'.id].webhook_attempts
                 = linkTask'.loaded.webhook_attempts + 1
       /\ ApprCompletes
            => approvals'[apprTask'.id].webhook_attempts
                 = ApprAttemptsBefore + 1
       /\ \A s \in DOMAIN links :
            links'[s].webhook_attempts >= links[s].webhook_attempts
       /\ \A a \in DOMAIN approvals :
            approvals'[a].webhook_attempts
              >= approvals[a].webhook_attempts]_vars

\* C19: while the POST of a dispatcher is under way, the stored
\* webhook_attempts of the record already counts it.
C19_CountedBeforePost ==
    /\ linkTask.pc = "post"
         => links[linkTask.id].webhook_attempts
              = linkTask.loaded.webhook_attempts + 1
    /\ apprTask.pc = "post"
         => approvals[apprTask.id].webhook_attempts
              = apprTask.loaded.webhook_attempts + 1

\* C20: when a call of either dispatcher with a target URL returns, the
\* record is SENT with no error text exactly when the POST succeeded and
\* FAILED with an error text exactly when it failed, whatever the record
\* held before.
C20_StatusTracksOutcome ==
    [][/\ (LinkCompletes /\ linkTask'.last /= "nourl")
            => LET row == links'[linkTask'.id] IN
               /\ (row.webhook_status = SENT /\ row.webhook_last_error = None)
                    <=> linkTask'.last = "ok"
               /\ (/\ row.webhook_status = FAILED
                   /\ row.webhook_last_error \in ErrorTexts)
                    <=> linkTask'.last = "fail"
       /\ (ApprCompletes /\ apprTask'.last /= "nourl")
            => LET row == approvals'[apprTask'.id] IN
               /\ (row.webhook_status = SENT /\ row.webhook_last_error = None)
                    <=> apprTask'.last = "ok"
               /\ (/\ row.webhook_status = FAILED
                   /\ row.webhook_last_error \in ErrorTexts)
                    <=> apprTask'.last = "fail"]_vars

\* C20 witness: the approval dispatcher has delivered a record it had loaded
\* FAILED with an error text, the record is now SENT without one, and a link
\* submission is FAILED with an error text.
C20_Witness ==
    /\ apprTask.pc = "idle"
    /\ apprTask.last = "ok"
    /\ apprTask.loaded.webhook_status = FAILED
    /\ apprTask.loaded.webhook_last_error \in ErrorTexts
    /\ apprTask.id \in DOMAIN approvals
    /\ approvals[apprTask.id].webhook_status = SENT
    /\ approvals[apprTask.id].webhook_last_error = None
    /\ approvals[apprTask.id].webhook_attempts = 2
    /\ \E s \in DOMAIN links :
         /\ links[s].webhook_status = FAILED
         /\ links[s].webhook_last_error \in ErrorTexts

C22_ApprovalDispatched ==
    \A a \in DOMAIN approvals :
        (approvals[a].webhook_status = PENDING
           /\ approvals[a].webhook_attempts = 0)
          => (apprTask.id = a /\ apprTask.pc /= "idle")

\* A step of a dispatcher invocation for the record that began when the
\* record was already FAILED: the start of a dispatch for it, or the POST of
\* a dispatch that loaded it as FAILED.
LinkInvokedAgain(s) ==
    \/ linkTask.pc = "idle" /\ tasks /= <<>> /\ Head(tasks) = s
         /\ tasks' = Tail(tasks)
    \/ linkTask.pc = "post" /\ linkTask.id = s
         /\ linkTask.loaded.webhook_status = FAILED

ApprInvokedAgain(a) ==
    /\ apprTask.pc = "post"
    /\ apprTask.id = a
    /\ apprTask.loaded.webhook_status = FAILED

\* C23: there is no automatic retry.  A dispatcher invocation that has
\* issued its POST ends with the step that records the outcome (at most one
\* POST per invocation), and a FAILED record keeps its status and its
\* webhook_attempts in every step that is not a new invocation for it.
C23_NoAutomaticRetry ==
    [][/\ (linkTask.pc = "post"
             /\ (linkTask' /= linkTask
                   \/ links'[linkTask.id] /= links[linkTask.id]))
            => linkTask'.pc = "idle"
       /\ (apprTask.pc = "post"
             /\ (apprTask' /= apprTask
                   \/ approvals'[apprTask.id] /= approvals[apprTask.id]))
            => apprTask'.pc = "idle"
       /\ \A s \in DOMAIN links :
            (links[s].webhook_status = FAILED /\ ~LinkInvokedAgain(s))
              => /\ links'[s].webhook_status = FAILED
                 /\ links'[s].webhook_attempts = links[s].webhook_attempts
       /\ \A a \in DOMAIN approvals :
            (approvals[a].webhook_status = FAILED /\ ~ApprInvokedAgain(a))
              => /\ approvals'[a].webhook_status = FAILED
                 /\ approvals'[a].webhook_attempts
                      = approvals[a].webhook_attempts]_vars

\* C23 witness: a submission whose delivery failed is still FAILED with its
\* one attempt after the dispatcher has delivered a later submission, and a
\* FAILED approval is still FAILED after a dispatch for another approval.
C23_Witness ==
    /\ Len(links) = 2
    /\ links[1].webhook_status = FAILED
    /\ links[1].webhook_attempts = 1
    /\ linkTask.id = 2
    /\ linkTask.last = "ok"
    /\ \E a \in DOMAIN approvals :
         /\ approvals[a].webhook_status = FAILED
         /\ apprTask.id \in DOMAIN approvals \ {a}
         /\ apprTask.last = "ok"

\* A step of one of the two webhook dispatchers.
DispatcherStep == linkTask' /= linkTask \/ apprTask' /= apprTask

\* C24: webhook delivery is out-of-band.  The request that makes a record
\* commits it and returns without any step of a delivery, it is accepted
\* whatever a delivery is doing, and no step of a delivery, failed or slow,
\* removes a record or changes anything but the record's webhook triple.
C24_DeliveryOutOfBand ==
    [][/\ Len(links') > Len(links)
            => /\ links' = Append(links, LinkSubmission)
               /\ ~DispatcherStep
       /\ Len(approvals') > Len(approvals)
            => /\ approvals'[Len(approvals')].webhook_attempts = 0
               /\ ~DispatcherStep
       /\ Len(links) < MaxLinks => ENABLED create_link_submission
       /\ DispatcherStep
            => /\ Len(links') = Len(links)
               /\ Len(approvals') = Len(approvals)
               /\ \A a \in DOMAIN approvals :
                    /\ approvals'[a].run_image_id = approvals[a].run_image_id
                    /\ approvals'[a].approved_by = approvals[a].approved_by
               /\ UNCHANGED <<runs, images>>]_vars

\* C24 witness: records were committed while a delivery was under way, and
\* a submission and an approval whose deliveries failed are still there,
\* next to the approved image.
C24_Witness ==
    /\ linkTask.pc = "post"
    /\ Len(links) = 2
    /\ links[1].webhook_status = FAILED
    /\ links[2].webhook_status = PENDING
    /\ \E a \in DOMAIN approvals :
         /\ approvals[a].webhook_status = FAILED
         /\ images[approvals[a].run_image_id].status = APPROVED

\* The step in which the poll of worker w returns a run.
Polls(w) == pc[w] = "poll" /\ pc'[w] = "claim"

\* C25 as stated: runs are claimed oldest first, and with a single worker in
\* creation order: the run a poll returns has the least created_at of the
\* QUEUED runs and no QUEUED run was created before it.
C25_CreationOrder ==
    [][\A w \in SingleWorker :
         Polls(w)
           => \A q \in QueuedRuns :
                /\ runs[wRun'[w]].created_at <= runs[q].created_at
                /\ wRun'[w] <= q]_vars

\* C25 amended: the run a poll returns is QUEUED and no QUEUED run has an
\* earlier created_at; a QUEUED run created before it has the same
\* created_at, so runs of different created_at are claimed in creation order
\* and runs of one created_at in either order.
C25_OldestCreatedAtFirst ==
    [][\A w \in SingleWorker :
         Polls(w)
           => /\ wRun'[w] \in QueuedRuns
              /\ \A q \in QueuedRuns :
                   /\ runs[wRun'[w]].created_at <= runs[q].created_at
                   /\ q < wRun'[w]
                        => runs[q].created_at = runs[wRun'[w]].created_at]_vars

\* C25 witness: two runs made in different seconds are QUEUED and the poll
\* has returned the older one.
C25_Witness ==
    \E w \in SingleWorker :
        /\ pc[w] = "claim"
        /\ wRun[w] \in QueuedRuns
        /\ \E q \in QueuedRuns :
             runs[wRun[w]].created_at < runs[q].created_at

\* C26: ListRuns without a filter returns exactly the runs that are
\* GENERATING or READY, so none that is QUEUED, APPROVED or ERROR, and with
\* a filter exactly the runs of that status.
C26_ListSelectsByStatus ==
    [][\A filter \in RunStatus \cup {Unset} :
         list_runs(filter)
           => /\ listed'.code = 200
              /\ listed'.runs
                   = {r \in RunIds :
                        IF filter = Unset
                        THEN runs[r].status \in {GENERATING, READY}
                        ELSE runs[r].status = filter}
              /\ filter = Unset
                   => \A r \in listed'.runs :
                        runs[r].status \notin {QUEUED, APPROVED, ERROR}]_vars

\* C27: whatever the filter, ListRuns returns a queued_count equal to the
\* number of runs that are QUEUED at that moment.
C27_QueuedCount ==
    [][\A filter \in RunStatus \cup {Unset} :
         list_runs(filter)
           => /\ listed'.code = 200
              /\ listed'.queued_count
                   = Cardinality({r \in RunIds : runs[r].status = QUEUED})]_vars

\* The three cases of NotFound for an image of a run: no such run, no such
\* image, or an image of another run.
ImageNotFound(r, i) ==
    \/ r \notin RunIds
    \/ i \notin ImageIds
    \/ images[i].run_id /= r

\* C28: ApproveImage and RejectImage for a run that is absent, an image
\* that is absent or an image of another run change no run, no image and no
\* approval row.
C28_NotFoundChangesNothing ==
    [][\A r \in 1..MaxRuns, i \in 1..MaxImages, by \in Approvers :
         (ImageNotFound(r, i)
            /\ (approve_run_image(r, i, by) \/ reject_run_image(r, i)))
           => UNCHANGED <<runs, images, approvals, approveCalls>>]_vars

\* C28 witness: the three cases are at hand at once and the requests are
\* taken: an image of one run next to another run that is not APPROVED, an
\* image id and a run id that do not exist.
C28_Witness ==
    \E r \in RunIds, i \in ImageIds, by \in Approvers :
        /\ images[i].run_id /= r
        /\ images[i].status = GENERATED
        /\ runs[r].status /= APPROVED
        /\ Len(images) < MaxImages
        /\ ENABLED approve_run_image(r, i, by)
        /\ ENABLED reject_run_image(r, Len(images) + 1)

\* C29: CreateRun with an empty prompt fails with ValidationError and
\* creates no run and no image.
C29_EmptyPromptRejected ==
    [][\A given \in RunStatus \cup {Unset}, ords \in ImageLists :
         post_runs("", given, ords) => UNCHANGED <<runs, images>>]_vars

Orphaned(r) ==
    /\ runs[r].status = GENERATING
    /\ \A w \in SingleWorker : wRun[w] = r => pc[w] = "down"

\* C31: a run left GENERATING by a worker that crashed stays GENERATING
\* under worker activity alone: the restarted worker never selects it, and
\* a step that changes its status is an update_run_status request and no
\* step of the worker.
C31_StuckInGenerating ==
    [][\A r \in RunIds :
         Orphaned(r)
           => /\ \A w \in SingleWorker :
                   pc'[w] /= "down" => wRun'[w] /= r
              /\ runs'[r].status /= GENERATING
                   => /\ UNCHANGED workerVars
                      /\ update_run_status(r, runs'[r].status)]_vars

\* C31 witness: the worker died between the claim commit and the final
\* commit, and the run it held is GENERATING in the store.
C31_Witness ==
    \E w \in SingleWorker :
        /\ pc[w] = "down"
        /\ wRun[w] \in RunIds
        /\ runs[wRun[w]].status = GENERATING

\* The runs that are GENERATING in the store.
GeneratingRuns == {r \in RunIds : runs[r].status = GENERATING}

\* C32 as stated: with one worker that does not crash and without
\* update_run_status, at most one run is GENERATING.
C32_AtMostOneGenerating == Cardinality(GeneratingRuns) <= 1

\* C32 amended: a run that exists becomes GENERATING only by the claim of
\* the worker, the worker holds one run at a time, and its final commit
\* takes that run out of GENERATING before the next poll: of the runs the
\* worker claimed at most one is GENERATING.  Runs created GENERATING are
\* not bounded.
C32_OnlyTheClaimedRun ==
    [][\A w \in SingleWorker :
         /\ \A r \in RunIds :
              (runs[r].status /= GENERATING /\ runs'[r].status = GENERATING)
                => /\ pc[w] = "claim" /\ pc'[w] = "parse"
                   /\ wRun[w] = r
         /\ pc'[w] \in Processing => wRun'[w] \in RunIds
         /\ Finalizes(w)
              => /\ runs[wRun[w]].status = GENERATING
                 /\ runs'[wRun[w]].status \in {READY, ERROR}
                 /\ wRun'[w] = 0]_vars

\* C32 witness: the worker has finalized the run it claimed first and has
\* claimed the next one, which is the only run that is GENERATING.
C32_Witness ==
    \E w \in SingleWorker :
        /\ pc[w] \in Processing
        /\ wRun[w] = 2
        /\ runs[1].status = ERROR
        /\ runs[1].created_at < runs[2].created_at
        /\ GeneratingRuns = {2}

\* C33: the ordinal, the run and the location of an image never change
\* once the row exists, and no row disappears or moves: no request and no
\* step of the worker renumbers an image, a rejection included.
C33_ImageIdentityImmutable ==
    [][/\ Len(images') >= Len(images)
       /\ \A i \in ImageIds :
            /\ images'[i].ordinal = images[i].ordinal
            /\ images'[i].run_id = images[i].run_id
            /\ images'[i].asset_uri = images[i].asset_uri]_vars

\* C33 witness: the first of the two images of a run was rejected and the
\* second, approved since, still has ordinal 2: the ordinals of the run
\* have a gap among the images that are not rejected.
C33_Witness ==
    \E i, j \in ImageIds :
        /\ images[i].run_id = images[j].run_id
        /\ images[i].ordinal = 1
        /\ images[i].status = REJECTED
        /\ images[j].ordinal = 2
        /\ images[j].status = APPROVED

\* C34: approval rows are append-only: a row that exists keeps its place,
\* its image and its approver in every step, whatever happens to its
\* webhook triple, and a new row goes to the end.
C34_ApprovalsAppendOnly ==
    [][/\ Len(approvals') \in {Len(approvals), Len(approvals) + 1}
       /\ \A a \in DOMAIN approvals :
            [approvals'[a] EXCEPT
               !.webhook_status = approvals[a].webhook_status,
               !.webhook_attempts = approvals[a].webhook_attempts,
               !.webhook_last_error = approvals[a].webhook_last_error]
              = approvals[a]]_vars

\* C34 witness: the first of two approval rows has been delivered twice,
\* the first time without success, and still names its image and approver.
C34_Witness ==
    /\ Len(approvals) = 2
    /\ approvals[1].webhook_attempts = 2
    /\ approvals[1].webhook_status = SENT
    /\ approvals[1].approved_by \in Approvers
    /\ approvals[1].run_image_id \in ImageIds
    /\ approvals[2].webhook_status = PENDING

\* C35: with one worker that keeps running, every run that is QUEUED is
\* eventually claimed (GENERATING) and eventually READY or ERROR, and no
\* run is claimed while a run of an earlier created_at is QUEUED, so a run
\* waits only for runs that are not newer than itself.
C35_QueuedRunsAreProcessed ==
    /\ \A r \in 1..MaxRuns :
         /\ (r \in RunIds /\ runs[r].status = QUEUED)
              ~> (r \in RunIds /\ runs[r].status = GENERATING)
         /\ (r \in RunIds /\ runs[r].status = QUEUED)
              ~> (r \in RunIds /\ runs[r].status \in {READY, ERROR})
    /\ [][\A w \in SingleWorker, q \in QueuedRuns :
            Polls(w) => runs[q].created_at >= runs[wRun'[w]].created_at]_vars

\* C35 witness: a run was claimed while a newer one was QUEUED; the newer
\* one is now in the hands of the worker and the older one is finalized.
C35_Witness ==
    \E w \in SingleWorker :
        /\ Len(runs) = MaxRuns
        /\ pc[w] = "finalize"
        /\ wRun[w] = MaxRuns
        /\ runs[MaxRuns].status = GENERATING
        /\ \A r \in 1..(MaxRuns - 1) :
             /\ runs[r].status \in {READY, ERROR}
             /\ runs[r].created_at < runs[MaxRuns].created_at

\* C36: next to requests that set the status of runs, the claim write of
\* the worker makes a run GENERATING only when the stored status is still
\* QUEUED at the write, and leaves a status set since its read as it is.
C36_ClaimOnlyIfStillQueued ==
    [][\A w \in SingleWorker :
         (pc[w] = "claim" /\ pc'[w] /= "claim")
           => \/ runs[wRun[w]].status = QUEUED
              \/ runs'[wRun[w]].status = runs[wRun[w]].status]_vars

\* C37: every image that is APPROVED has an approval row, every approval
\* row names an image that exists, and the image a new approval row names is
\* APPROVED in the state the row is committed in.
C37_ApprovedHasApproval ==
    /\ [](/\ \A i \in ImageIds :
               images[i].status = APPROVED => ApprovalsOf(i) /= {}
          /\ \A a \in DOMAIN approvals : approvals[a].run_image_id \in ImageIds)
    /\ [][\A a \in DOMAIN approvals' \ DOMAIN approvals :
            /\ approvals'[a].run_image_id \in DOMAIN images'
            /\ images'[approvals'[a].run_image_id].status = APPROVED]_vars

\* C37 witness: an image with an approval row has been rejected since, next
\* to an image that is APPROVED and has its row.
C37_Witness ==
    \E i, j \in ImageIds :
        /\ images[i].status = REJECTED
        /\ ApprovalsOf(i) /= {}
        /\ images[j].status = APPROVED
        /\ ApprovalsOf(j) /= {}


\* C38: every step that changes the status of a run (UpdateRunStatus,
\* ApproveImage, the worker's claim, the worker's finalization) also advances
\* the updated_at of that run.
C38_StatusChangeAdvancesUpdatedAt ==
    [][\A r \in RunIds :
         runs'[r].status /= runs[r].status
           => runs'[r].updated_at /= runs[r].updated_at]_vars


\* C39: under every interleaving of the callers of _ensure_loaded, a pair a
\* call returns holds a session and a tag list, and once a call has
\* returned a pair no inference session is constructed again.
C39_LazyInitOnce ==
    /\ [](\A t \in Callers :
            callRet[t].kind = "return"
              => callRet[t].session /= 0 /\ callRet[t].tags /= None)
    /\ [][returned => constructed' = constructed /\ session' = session]_vars

\* C39 witness: a call has returned a pair while another caller, which had
\* seen the globals unset, is still on its way to the lock.
C39_Witness ==
    \E t, u \in Callers :
        /\ t /= u
        /\ callRet[t].kind = "return"
        /\ callPc[u] = "acquire"
        /\ constructed >= 1

====
